---- MODULE Spec2Model ----
(***************************************************************************)
(* Model of value-mapper-vue: the mapping store (lib/context.ts, kept in   *)
(* src/unnamed/part_001), the node event handlers of useNode and the       *)
(* event bindings of ValueMapperNode.vue / ValueMapperRoot.vue.            *)
(*                                                                         *)
(* A JavaScript object with string keys is a sequence of <<key, value>>    *)
(* pairs in own-property enumeration order.  A "string | null" value is a  *)
(* sequence of length at most one: << >> is null, <<s>> is the string s.   *)
(***************************************************************************)
EXTENDS Integers, Sequences, FiniteSets, TLC

VARIABLES mapping, isDragging, dragSource, last, gesture, order,
          heap, stores, act, path, canvas

storeVars == <<mapping, isDragging, dragSource, last, gesture, order>>
widgetVars == <<heap, stores, act>>
geomVars == <<path, canvas>>
vars == <<storeVars, widgetVars, geomVars>>

\* Identifiers passed to the store commands as sources and as targets.
SourceIds == {"", "a", "a->b", "1"}
TargetIds == {"c", "b->c", "a"}
Ids == SourceIds \cup TargetIds

\* The nodes the host renders: identifier and type (ValueMapperNode props).
SourceNodes == {"", "a", "b"}
TargetNodes == {"c", "a"}
Nodes == {[id |-> i, type |-> "source"] : i \in SourceNodes}
            \cup {[id |-> i, type |-> "target"] : i \in TargetNodes}

Null == << >>
Undefined == "undefined"

\* JavaScript truthiness of a string | null value: null and "" are falsy.
Truthy(v) == v # Null /\ v[1] # ""

(***************************************************************************)
(* JavaScript objects: property order, spread, computed key, delete.       *)
(***************************************************************************)
Digits == "0123456789"

CharAt(s, i) == SubSeq(s, i, i)

IsDigit(c) == \E i \in 1..10 : CharAt(Digits, i) = c

DigitValue(c) == (CHOOSE i \in 1..10 : CharAt(Digits, i) = c) - 1

\* Numeric order of two digit strings of the same length.
RECURSIVE DigitsLess(_, _)
DigitsLess(x, y) ==
    IF Len(x) = 0 THEN FALSE
    ELSE IF CharAt(x, 1) # CharAt(y, 1)
         THEN DigitValue(CharAt(x, 1)) < DigitValue(CharAt(y, 1))
         ELSE DigitsLess(SubSeq(x, 2, Len(x)), SubSeq(y, 2, Len(y)))

IndexLess(x, y) == Len(x) < Len(y) \/ (Len(x) = Len(y) /\ DigitsLess(x, y))

\* The largest array index, 2^32 - 2, as a canonical numeric string.
MaxArrayIndex == "4294967294"

\* A property key that is an array index: a canonical numeric string.
IsArrayIndex(k) ==
    /\ Len(k) >= 1
    /\ \A i \in 1..Len(k) : IsDigit(CharAt(k, i))
    /\ (Len(k) > 1 => CharAt(k, 1) # "0")
    /\ (k = MaxArrayIndex \/ IndexLess(k, MaxArrayIndex))

HasOwn(obj, k) == \E i \in 1..Len(obj) : obj[i][1] = k

\* The property names of Object.prototype, which every object literal
\* inherits; Inherited(k) stands for the function or object found there.
ObjectPrototypeKeys ==
    {"constructor", "hasOwnProperty", "isPrototypeOf", "propertyIsEnumerable",
     "toLocaleString", "toString", "valueOf", "__proto__",
     "__defineGetter__", "__defineSetter__", "__lookupGetter__", "__lookupSetter__"}
Inherited(k) == "Object.prototype." \o k
IsInherited(v) == \E k \in ObjectPrototypeKeys : v = Inherited(k)

\* obj[k]: the own property, else the property inherited from
\* Object.prototype, else undefined (Null).
Get(obj, k) ==
    IF HasOwn(obj, k)
    THEN <<obj[CHOOSE i \in 1..Len(obj) : obj[i][1] = k /\ \A j \in 1..(i - 1) : obj[j][1] # k][2]>>
    ELSE IF k \in ObjectPrototypeKeys THEN <<Inherited(k)>>
    ELSE Null

\* An error thrown instead of a value returned.
Thrown(e) == <<"throws", e>>
IsThrown(v) == Len(v) = 2 /\ v[1] = "throws"

\* Every new key goes to the end, array index or not.
CreateProp_append(obj, k, v) == Append(obj, <<k, v>>)

\* Own keys enumerate array indices first, ascending, then the other
\* strings in creation order: a new key takes its place in that order.
CreateProp(obj, k, v) ==
    IF IsArrayIndex(k)
    THEN LET pos == Cardinality({i \in 1..Len(obj) :
                        IsArrayIndex(obj[i][1]) /\ IndexLess(obj[i][1], k)})
         IN SubSeq(obj, 1, pos) \o << <<k, v>> >> \o SubSeq(obj, pos + 1, Len(obj))
    ELSE Append(obj, <<k, v>>)

\* Always a new property, never an overwrite.
SetProp_append(obj, k, v) == CreateProp(obj, k, v)

\* obj[k] = v: overwrite in place, or create.
SetProp(obj, k, v) ==
    IF HasOwn(obj, k)
    THEN [i \in 1..Len(obj) |-> IF obj[i][1] = k THEN <<k, v>> ELSE obj[i]]
    ELSE CreateProp(obj, k, v)

\* { ...obj }: a copy with the same properties in the same order.
Spread(obj) == obj

RECURSIVE DeleteProp(_, _)
DeleteProp(obj, k) ==
    IF Len(obj) = 0 THEN << >>
    ELSE IF Head(obj)[1] = k THEN Tail(obj)
         ELSE <<Head(obj)>> \o DeleteProp(Tail(obj), k)

ObjectKeys(obj) == [i \in 1..Len(obj) |-> obj[i][1]]
ObjectValues(obj) == [i \in 1..Len(obj) |-> obj[i][2]]
ObjectEntries(obj) == obj

includes(arr, x) == \E i \in 1..Len(arr) : arr[i] = x

\* The copy keeps every key.
omit_keepsAll(obj, keys) == Spread(obj)

RECURSIVE omit(_, _)
omit(obj, keys) ==
    IF Len(keys) = 0 THEN Spread(obj)
    ELSE DeleteProp(omit(obj, SubSeq(keys, 1, Len(keys) - 1)), keys[Len(keys)])

(***************************************************************************)
(* The store.  A store state is the record of its three refs.              *)
(***************************************************************************)
Store == [mapping |-> mapping, isDragging |-> isDragging, dragSource |-> dragSource]

InitStore == [mapping |-> << >>, isDragging |-> FALSE, dragSource |-> Null]

connections(st) ==
    [i \in 1..Len(ObjectEntries(st.mapping)) |->
        [id |-> ObjectEntries(st.mapping)[i][1] \o "->" \o ObjectEntries(st.mapping)[i][2],
         source |-> ObjectEntries(st.mapping)[i][1],
         target |-> ObjectEntries(st.mapping)[i][2]]]

\* An existing entry is kept: the first write wins.
addConnection_firstWins(st, source, target) ==
    IF HasOwn(st.mapping, source) THEN st
    ELSE [st EXCEPT !.mapping = SetProp(Spread(st.mapping), source, target)]

addConnection(st, source, target) ==
    [st EXCEPT !.mapping = SetProp(Spread(st.mapping), source, target)]

\* The argument is taken for a target: the entries with that value go.
removeConnection_byTarget(st, source) ==
    [st EXCEPT !.mapping = SelectSeq(st.mapping, LAMBDA e : e[2] # source)]

removeConnection(st, source) ==
    [st EXCEPT !.mapping = omit(st.mapping, <<source>>)]

startConnection(st, sourceId) ==
    [st EXCEPT !.isDragging = TRUE, !.dragSource = <<sourceId>>]

\* The commit is not guarded: a null dragSource becomes the key "null".
endConnection_unguarded(st, targetId) ==
    [addConnection(st, IF st.dragSource = Null THEN "null" ELSE st.dragSource[1], targetId)
        EXCEPT !.isDragging = FALSE, !.dragSource = Null]

\* The drag source is set to the target instead of null.
endConnection_chains(st, targetId) ==
    [(IF Truthy(st.dragSource)
      THEN addConnection(st, st.dragSource[1], targetId)
      ELSE st)
        EXCEPT !.isDragging = FALSE, !.dragSource = <<targetId>>]

\* The drag source is not reset.
endConnection_keepsSource(st, targetId) ==
    [(IF Truthy(st.dragSource)
      THEN addConnection(st, st.dragSource[1], targetId)
      ELSE st)
        EXCEPT !.isDragging = FALSE]

endConnection(st, targetId) ==
    [(IF Truthy(st.dragSource)
      THEN addConnection(st, st.dragSource[1], targetId)
      ELSE st)
        EXCEPT !.isDragging = FALSE, !.dragSource = Null]

\* Only the flag is reset.
cancelConnection_keepsSource(st) == [st EXCEPT !.isDragging = FALSE]

\* The entry of the drag source is dropped as well.
cancelConnection_dropsEntry(st) ==
    [(IF st.dragSource # Null THEN removeConnection(st, st.dragSource[1]) ELSE st)
        EXCEPT !.isDragging = FALSE, !.dragSource = Null]

cancelConnection(st) ==
    [st EXCEPT !.isDragging = FALSE, !.dragSource = Null]

\* The roles are swapped.
hasConnection_swapped(st, nodeId, nodeTypeArg) ==
    LET nodeType == IF nodeTypeArg = Undefined THEN "source" ELSE nodeTypeArg
    IN IF nodeType = "source"
       THEN includes(ObjectValues(st.mapping), nodeId)
       ELSE includes(ObjectKeys(st.mapping), nodeId)

\* Both roles test the keys and the values alike.
hasConnection_anyRole(st, nodeId, nodeTypeArg) ==
    includes(ObjectKeys(st.mapping), nodeId) \/ includes(ObjectValues(st.mapping), nodeId)

\* nodeTypeArg = Undefined is the call without the second argument.
hasConnection(st, nodeId, nodeTypeArg) ==
    LET nodeType == IF nodeTypeArg = Undefined THEN "source" ELSE nodeTypeArg
    IN IF nodeType = "source"
       THEN includes(ObjectKeys(st.mapping), nodeId)
       ELSE includes(ObjectValues(st.mapping), nodeId)

(***************************************************************************)
(* State after construction: the default (empty) v-model, no drag.         *)
(***************************************************************************)
NoGesture == [phase |-> 0, source |-> "", target |-> "", pre |-> << >>,
              flips |-> 0, commits |-> 0]

NoPath == [fn |-> "none", args |-> << >>, out |-> ""]

\* No root element yet, no node component mounted, no node registered, the
\* pointer refs at their initial value 0.
InitCanvas == [root |-> Null, nodes |-> << >>, mounted |-> {},
               elementX |-> [num |-> 0, den |-> 1], elementY |-> [num |-> 0, den |-> 1]]

NoAct == [place |-> "", by |-> "init", threw |-> FALSE, store |-> << >>]

Init ==
    /\ mapping = InitStore.mapping
    /\ isDragging = InitStore.isDragging
    /\ dragSource = InitStore.dragSource
    /\ last = [op |-> "init", a |-> "", b |-> "", pre |-> InitStore]
    /\ gesture = NoGesture
    /\ order = << >>
    /\ heap = << >>
    /\ stores = << >>
    /\ act = NoAct
    /\ path = NoPath
    /\ canvas = InitCanvas

\* The keys of the sequence keys that satisfy Keep(k), in the same order.
KeepKeys(keys, Keep(_)) == SelectSeq(keys, Keep)

\* order records the history of the mapping's keys: the keys it has now, in
\* the order in which they were inserted (a key that was removed and
\* inserted again counts from its last insertion).
Inserted(old, obj) ==
    LET StillThere(k) == HasOwn(obj, k)
        IsNew(k) == \A i \in 1..Len(old) : old[i] # k
    IN KeepKeys(old, StillThere) \o KeepKeys(ObjectKeys(obj), IsNew)

\* The refs take the values of the store state st; the call is recorded.
Becomes(st, op, a, b) ==
    /\ mapping' = st.mapping
    /\ isDragging' = st.isDragging
    /\ dragSource' = st.dragSource
    /\ last' = [op |-> op, a |-> a, b |-> b, pre |-> Store]
    /\ order' = Inserted(order, st.mapping)
    /\ UNCHANGED <<widgetVars, geomVars>>

(***************************************************************************)
(* The store commands, called by the host through useValueMapperStore().   *)
(***************************************************************************)
AddConnection(s, t) ==
    /\ Becomes(addConnection(Store, s, t), "addConnection", s, t)
    /\ UNCHANGED gesture

RemoveConnection(s) ==
    /\ Becomes(removeConnection(Store, s), "removeConnection", s, "")
    /\ UNCHANGED gesture

StartConnection(s) ==
    /\ Becomes(startConnection(Store, s), "startConnection", s, "")
    /\ UNCHANGED gesture

EndConnection(t) ==
    /\ Becomes(endConnection(Store, t), "endConnection", t, "")
    /\ UNCHANGED gesture

CancelConnection ==
    /\ Becomes(cancelConnection(Store), "cancelConnection", "", "")
    /\ UNCHANGED gesture

\* A query: it reads the mapping and writes nothing.
HasConnection(x, ty) ==
    /\ last' = [op |-> "hasConnection", a |-> x, b |-> ty, pre |-> Store]
    /\ UNCHANGED <<mapping, isDragging, dragSource, gesture, order>>
    /\ UNCHANGED <<widgetVars, geomVars>>

Next ==
    \/ \E s \in SourceIds, t \in TargetIds : AddConnection(s, t)
    \/ \E s \in SourceIds : RemoveConnection(s)
    \/ \E s \in SourceIds : StartConnection(s)
    \/ \E t \in TargetIds : EndConnection(t)
    \/ CancelConnection
    \/ \E x \in Ids, ty \in {"source", "target", Undefined} : HasConnection(x, ty)

Spec == Init /\ [][Next]_vars

\* The same commands with sources that include array-index keys.
OrderSourceIds == {"a", "b", "2", "10"}
OrderTargetIds == {"c", "a"}

NextOrder ==
    \/ \E s \in OrderSourceIds, t \in OrderTargetIds : AddConnection(s, t)
    \/ \E s \in OrderSourceIds : RemoveConnection(s)

SpecOrder == Init /\ [][NextOrder]_vars

(***************************************************************************)
(* useNode: the handlers of one node, given its identifier and type.       *)
(* A handler result is the store state it leaves and whether it called     *)
(* event.stopPropagation().                                                *)
(***************************************************************************)
onMouseDown(st, id, type) ==
    IF type = "source" /\ ~hasConnection(st, id, "source")
    THEN [st |-> startConnection(st, id), stopped |-> TRUE]
    ELSE [st |-> st, stopped |-> FALSE]

\* The node type is not tested.
onMouseUp_anyType(st, id, type) ==
    [st |-> endConnection(st, id), stopped |-> FALSE]

onMouseUp(st, id, type) ==
    IF type = "target"
    THEN [st |-> endConnection(st, id), stopped |-> FALSE]
    ELSE [st |-> st, stopped |-> FALSE]

onClick(st, id, type) ==
    IF type = "source"
    THEN [st |-> startConnection(st, id), stopped |-> TRUE]
    ELSE IF type = "target"
         THEN [st |-> endConnection(st, id), stopped |-> TRUE]
         ELSE [st |-> st, stopped |-> TRUE]

\* An element of the page is the record of its dataset (its data-*
\* attributes); Null stands for no element.  The node element and the handle
\* element of a node carry data-node = identifier and nothing else.
NodeElement(n) == [dataset |-> << <<"node", n.id>> >>]

\* Host markup: an element without data attributes, or one that the host
\* marked with data-target.
PlainElement == [dataset |-> << >>]
MarkedElement(t) == [dataset |-> << <<"target", t>> >>]

\* element.dataset[name]: the attribute value, or undefined (Null).
DatasetGet(element, name) ==
    IF \E i \in 1..Len(element.dataset) : element.dataset[i][1] = name
    THEN <<element.dataset[CHOOSE i \in 1..Len(element.dataset) : element.dataset[i][1] = name][2]>>
    ELSE Null

\* over is the result of document.elementFromPoint at the touch point, which
\* only a source node looks at: with no element there, reading
\* target.dataset throws before any store call.  A target node does not look
\* at the touch point.
onTouchEnd(st, id, type, over) ==
    IF type = "source"
    THEN IF over = Null
         THEN [st |-> st, stopped |-> FALSE]
         ELSE LET targetName == DatasetGet(over, "target")
              IN IF Truthy(targetName)
                 THEN [st |-> endConnection(st, targetName[1]), stopped |-> TRUE]
                 ELSE [st |-> st, stopped |-> FALSE]
    ELSE IF type = "target" /\ hasConnection(st, id, "source")
         THEN [st |-> endConnection(st, id), stopped |-> FALSE]
         ELSE [st |-> st, stopped |-> FALSE]

(***************************************************************************)
(* ValueMapperNode.vue: mousedown and mouseup are bound on the node        *)
(* element and on the handle element inside it, and so is touchend; click  *)
(* (with .stop) is bound on the                                            *)
(* node element only.  An event on the handle runs the handle's listener   *)
(* and then, unless propagation was stopped, the node's listener.          *)
(* A dispatch yields the store states left by the listeners it ran.        *)
(***************************************************************************)
Elements == {"node", "handle"}

DispatchMouseDown(st, n, el) ==
    LET r1 == onMouseDown(st, n.id, n.type)
    IN IF el = "handle" /\ ~r1.stopped
       THEN <<r1.st, onMouseDown(r1.st, n.id, n.type).st>>
       ELSE <<r1.st>>

DispatchMouseUp(st, n, el) ==
    LET r1 == onMouseUp(st, n.id, n.type)
    IN IF el = "handle" /\ ~r1.stopped
       THEN <<r1.st, onMouseUp(r1.st, n.id, n.type).st>>
       ELSE <<r1.st>>

DispatchTouchEnd(st, n, el, over) ==
    LET r1 == onTouchEnd(st, n.id, n.type, over)
    IN IF el = "handle" /\ ~r1.stopped
       THEN <<r1.st, onTouchEnd(r1.st, n.id, n.type, over).st>>
       ELSE <<r1.st>>

\* A click on the node or on its handle reaches the node's listener once
\* and stops there (@click.stop).
DispatchClick(st, n) == <<onClick(st, n.id, n.type).st>>

\* ValueMapperRoot.vue: a click that reaches the root element.
DispatchRootClick(st) == <<cancelConnection(st)>>

\* How often isDragging, and how often the mapping, changed while the
\* listeners of one dispatch ran from the store state st.
Before(st, trace, i) == IF i = 1 THEN st ELSE trace[i - 1]

Flips(st, trace) ==
    Cardinality({i \in 1..Len(trace) : Before(st, trace, i).isDragging # trace[i].isDragging})

Commits(st, trace) ==
    Cardinality({i \in 1..Len(trace) : Before(st, trace, i).mapping # trace[i].mapping})

(***************************************************************************)
(* The pointer events of the widget.  gesture follows one mouse gesture:   *)
(* phase 1 after mouse-down on an unconnected source node of an idle       *)
(* store, phase 2 after the mouse-up on a target node that follows it,     *)
(* phase 3 after the click on the root that follows that.                  *)
(***************************************************************************)
MouseDown(n, el) ==
    LET trace == DispatchMouseDown(Store, n, el)
    IN /\ Becomes(trace[Len(trace)], "mousedown", n.id, n.type)
       /\ gesture' = IF n.type = "source" /\ ~hasConnection(Store, n.id, "source")
                        /\ ~isDragging
                     THEN [phase |-> 1, source |-> n.id, target |-> "",
                           pre |-> mapping,
                           flips |-> Flips(Store, trace),
                           commits |-> Commits(Store, trace)]
                     ELSE NoGesture

MouseUp(n, el) ==
    LET trace == DispatchMouseUp(Store, n, el)
    IN /\ Becomes(trace[Len(trace)], "mouseup", n.id, n.type)
       /\ gesture' = IF gesture.phase = 1 /\ n.type = "target"
                     THEN [gesture EXCEPT !.phase = 2, !.target = n.id,
                               !.flips = @ + Flips(Store, trace),
                               !.commits = @ + Commits(Store, trace)]
                     ELSE NoGesture

Click(n) ==
    LET trace == DispatchClick(Store, n)
    IN /\ Becomes(trace[Len(trace)], "click", n.id, n.type)
       /\ gesture' = NoGesture

\* The elements that can lie under a touch point.
TouchPoints ==
    {Null, PlainElement} \cup {NodeElement(m) : m \in Nodes}
        \cup {MarkedElement(t) : t \in TargetNodes}

\* touchend goes to the node n on which the touch began; over is the
\* element under the point where it ended.
TouchEnd(n, el, over) ==
    LET trace == DispatchTouchEnd(Store, n, el, over)
    IN /\ mapping' = trace[Len(trace)].mapping
       /\ isDragging' = trace[Len(trace)].isDragging
       /\ dragSource' = trace[Len(trace)].dragSource
       /\ last' = [op |-> "touchend", a |-> n.id, b |-> n.type, pre |-> Store,
                   over |-> over]
       /\ order' = Inserted(order, trace[Len(trace)].mapping)
       /\ gesture' = NoGesture
       /\ UNCHANGED <<widgetVars, geomVars>>

RootClick ==
    LET trace == DispatchRootClick(Store)
    IN /\ Becomes(trace[Len(trace)], "rootclick", "", "")
       /\ gesture' = IF gesture.phase = 2
                     THEN [gesture EXCEPT !.phase = 3,
                               !.flips = @ + Flips(Store, trace),
                               !.commits = @ + Commits(Store, trace)]
                     ELSE NoGesture

\* useConnectionUtils(source, target).removeConnection of a rendered connection.
ConnectionRemove(i) ==
    /\ i \in 1..Len(connections(Store))
    /\ Becomes(removeConnection(Store, connections(Store)[i].source),
               "removeConnection", connections(Store)[i].source, "")
    /\ gesture' = NoGesture

NextUI ==
    \/ \E n \in Nodes, el \in Elements : MouseDown(n, el)
    \/ \E n \in Nodes, el \in Elements : MouseUp(n, el)
    \/ \E n \in Nodes : Click(n)
    \/ \E n \in Nodes, el \in Elements, over \in TouchPoints : TouchEnd(n, el, over)
    \/ RootClick
    \/ \E i \in 1..Cardinality(SourceNodes) : ConnectionRemove(i)

SpecUI == Init /\ [][NextUI]_vars

(***************************************************************************)
(* Several widgets on one page.  Every ref is a cell of heap; a store is   *)
(* the record of the cells of its refs.  stores[i] is the store that the   *)
(* root i has provided to the components below it.                         *)
(***************************************************************************)
Instances == {"root1", "root2"}
Outside == "outside"

WidgetSourceNodes == {"a"}
WidgetTargetNodes == {"c"}
WidgetNodes == {[id |-> i, type |-> "source"] : i \in WidgetSourceNodes}
                  \cup {[id |-> i, type |-> "target"] : i \in WidgetTargetNodes}

\* The drag refs and the node registry live at module level: one cell each.
useProvideValueMapperStore_moduleRefs(i) ==
    [mapping |-> <<i, "mapping">>,
     nodes |-> <<"module", "nodes">>,
     isDragging |-> <<"module", "isDragging">>,
     dragSource |-> <<"module", "dragSource">>]

\* The composable run by the setup of root i: mapping is the root's own
\* v-model ref, nodes, isDragging and dragSource are refs made by this run.
useProvideValueMapperStore(i) ==
    [mapping |-> <<i, "mapping">>,
     nodes |-> <<i, "nodes">>,
     isDragging |-> <<i, "isDragging">>,
     dragSource |-> <<i, "dragSource">>]

\* The values the refs are created with.
InitialCells(h) ==
    (h.mapping :> << >>) @@ (h.nodes :> << >>)
        @@ (h.isDragging :> FALSE) @@ (h.dragSource :> Null)

\* The store state held by the cells of the store h.
Load(h) ==
    [mapping |-> heap[h.mapping], isDragging |-> heap[h.isDragging],
     dragSource |-> heap[h.dragSource], nodes |-> heap[h.nodes]]

\* The heap after the refs of the store h were assigned the state st.
Written(h, st) ==
    (h.mapping :> st.mapping) @@ (h.nodes :> st.nodes)
        @@ (h.isDragging :> st.isDragging) @@ (h.dragSource :> st.dragSource)
        @@ heap

\* inject: the store provided by the root above the place, or undefined
\* (the empty sequence) where there is none.
useInjectValueMapperStore(place) ==
    IF place \in DOMAIN stores THEN <<stores[place]>> ELSE << >>

\* No error is raised: the caller gets undefined.
useValueMapperStore_silent(place) ==
    [threw |-> FALSE, store |-> useInjectValueMapperStore(place)]

useValueMapperStore(place) ==
    LET store == useInjectValueMapperStore(place)
    IN IF store = << >>
       THEN [threw |-> TRUE, store |-> << >>]
       ELSE [threw |-> FALSE, store |-> store]

\* Setting el to null leaves the registry as it is.
setEl_neverRemoves(st, id, el) ==
    [st EXCEPT !.nodes = IF el # Null
                         THEN SetProp(Spread(st.nodes), id, el[1])
                         ELSE st.nodes]

\* useNode: the setter of el, with an element or with null.
setEl(st, id, el) ==
    [st EXCEPT !.nodes = IF el # Null
                         THEN SetProp(Spread(st.nodes), id, el[1])
                         ELSE omit(st.nodes, <<id>>)]

ElementOf(n) == n.type \o ":" \o n.id

Commands ==
    {[op |-> "addConnection", a |-> x, b |-> t] : x \in WidgetSourceNodes, t \in WidgetTargetNodes}
        \cup {[op |-> o, a |-> x, b |-> ""] :
                 o \in {"removeConnection", "startConnection"}, x \in WidgetSourceNodes}
        \cup {[op |-> "endConnection", a |-> t, b |-> ""] : t \in WidgetTargetNodes}
        \cup {[op |-> "cancelConnection", a |-> "", b |-> ""]}

Run(st, cmd) ==
    CASE cmd.op = "addConnection" -> addConnection(st, cmd.a, cmd.b)
      [] cmd.op = "removeConnection" -> removeConnection(st, cmd.a)
      [] cmd.op = "startConnection" -> startConnection(st, cmd.a)
      [] cmd.op = "endConnection" -> endConnection(st, cmd.a)
      [] cmd.op = "cancelConnection" -> cancelConnection(st)

Events == {"mousedown", "mouseup", "click"}

Handle(st, n, ev, el) ==
    LET trace == CASE ev = "mousedown" -> DispatchMouseDown(st, n, el)
                   [] ev = "mouseup" -> DispatchMouseUp(st, n, el)
                   [] ev = "click" -> DispatchClick(st, n)
    IN trace[Len(trace)]

\* A component at the place asks for the store through the composable by
\* and, when it got one, lets Op act on it.
Consume(place, by, Op(_)) ==
    LET r == useValueMapperStore(place)
    IN /\ place \in DOMAIN stores \cup {Outside}
       /\ act' = [place |-> place, by |-> by, threw |-> r.threw, store |-> r.store]
       /\ heap' = IF r.store = << >> THEN heap
                  ELSE Written(r.store[1], Op(Load(r.store[1])))
       /\ UNCHANGED <<stores, storeVars, geomVars>>

\* The setup of the root i (ValueMapperRoot.vue) creates and provides a store.
MountRoot(i) ==
    LET h == useProvideValueMapperStore(i)
    IN /\ i \notin DOMAIN stores
       /\ heap' = InitialCells(h) @@ heap
       /\ stores' = (i :> h) @@ stores
       /\ act' = [place |-> i, by |-> "ValueMapperRoot", threw |-> FALSE, store |-> <<h>>]
       /\ UNCHANGED <<storeVars, geomVars>>

\* The click listener of the root i acts on the store its setup got back.
WidgetRootClick(i) ==
    /\ i \in DOMAIN stores
    /\ heap' = Written(stores[i], DispatchRootClick(Load(stores[i]))[1])
    /\ act' = [place |-> i, by |-> "ValueMapperRoot.click", threw |-> FALSE,
               store |-> <<stores[i]>>]
    /\ UNCHANGED <<stores, storeVars, geomVars>>

UseStoreCommand(place, cmd) ==
    LET Op(st) == Run(st, cmd)
    IN Consume(place, "useValueMapperStore", Op)

UseNodeEvent(place, n, ev, el) ==
    LET Op(st) == Handle(st, n, ev, el)
    IN Consume(place, "useNode", Op)

UseNodeEl(place, n, mounted) ==
    LET Op(st) == setEl(st, n.id, IF mounted THEN <<ElementOf(n)>> ELSE Null)
    IN Consume(place, "useNode", Op)

UseConnectionUtilsRemove(place, source) ==
    LET Op(st) == removeConnection(st, source)
    IN Consume(place, "useConnectionUtils", Op)

\* The preview only reads the store.
UseConnectionPreview(place) ==
    LET Op(st) == st
    IN Consume(place, "useConnectionPreview", Op)

NextWidgets ==
    \/ \E i \in Instances : MountRoot(i)
    \/ \E i \in Instances : WidgetRootClick(i)
    \/ \E p \in Instances \cup {Outside}, cmd \in Commands : UseStoreCommand(p, cmd)
    \/ \E p \in Instances \cup {Outside}, n \in WidgetNodes, ev \in Events, el \in Elements :
          UseNodeEvent(p, n, ev, el)
    \/ \E p \in Instances \cup {Outside}, n \in WidgetNodes, mounted \in BOOLEAN :
          UseNodeEl(p, n, mounted)
    \/ \E p \in Instances \cup {Outside}, x \in WidgetSourceNodes : UseConnectionUtilsRemove(p, x)
    \/ \E p \in Instances \cup {Outside} : UseConnectionPreview(p)

SpecWidgets == Init /\ [][NextWidgets]_vars

(***************************************************************************)
(* Numbers.  A coordinate is a dyadic rational num / den in lowest terms   *)
(* (den a power of two), on which the floating-point operations of the     *)
(* path generators are exact.                                              *)
(***************************************************************************)
RECURSIVE Lowest(_, _)
Lowest(n, d) ==
    IF d > 1 /\ n % 2 = 0 THEN Lowest(n \div 2, d \div 2)
    ELSE [num |-> n, den |-> d]

Whole(n) == [num |-> n, den |-> 1]

\* The denominators are powers of two: the larger one is the common one.
CommonDen(x, y) == IF x.den >= y.den THEN x.den ELSE y.den
Scaled(x, d) == x.num * (d \div x.den)

Plus(x, y) == Lowest(Scaled(x, CommonDen(x, y)) + Scaled(y, CommonDen(x, y)), CommonDen(x, y))
Minus(x, y) == Lowest(Scaled(x, CommonDen(x, y)) - Scaled(y, CommonDen(x, y)), CommonDen(x, y))
Times(x, y) == Lowest(x.num * y.num, x.den * y.den)
MathAbs(x) == IF x.num < 0 THEN [num |-> 0 - x.num, den |-> x.den] ELSE x
Half == [num |-> 1, den |-> 2]

RECURSIVE NatToString(_)
NatToString(n) ==
    IF n < 10 THEN CharAt(Digits, n + 1)
    ELSE NatToString(n \div 10) \o CharAt(Digits, (n % 10) + 1)

\* The decimal digits of f / d, for 0 < f < d and d a power of two.
RECURSIVE FractionDigits(_, _)
FractionDigits(f, d) ==
    IF f = 0 THEN ""
    ELSE NatToString((10 * f) \div d) \o FractionDigits((10 * f) % d, d)

\* The number of "0" characters of the digit string s from position i on,
\* up to the first other digit.
RECURSIVE ZerosFrom(_, _)
ZerosFrom(s, i) ==
    IF i <= Len(s) /\ CharAt(s, i) = "0" THEN 1 + ZerosFrom(s, i + 1) ELSE 0

LeadingZeros(s) == ZerosFrom(s, 1)

RECURSIVE Zeros(_)
Zeros(n) == IF n <= 0 THEN "" ELSE "0" \o Zeros(n - 1)

\* The first i digits of s without the "0" characters at their end.
RECURSIVE StripTrailingZeros(_, _)
StripTrailingZeros(s, i) ==
    IF i > 0 /\ CharAt(s, i) = "0" THEN StripTrailingZeros(s, i - 1) ELSE SubSeq(s, 1, i)

\* The digit string of t + 1, where t is the first i digits of s.
RECURSIVE Increment(_, _)
Increment(s, i) ==
    IF i = 0 THEN "1"
    ELSE IF CharAt(s, i) = "9" THEN Increment(s, i - 1) \o "0"
    ELSE SubSeq(s, 1, i - 1) \o NatToString(DigitValue(CharAt(s, i)) + 1)

\* A long natural number is the sequence of its digits, zeros at the front
\* allowed.  The digits of the digit string s, followed by pad zeros:
DigitValues(s, pad) ==
    [i \in 1..(Len(s) + pad) |-> IF i <= Len(s) THEN DigitValue(CharAt(s, i)) ELSE 0]

\* 5 * q: the carry into a digit is half the digit to its right.
TimesFive(q) ==
    [i \in 1..(Len(q) + 1) |->
        (IF i = 1 THEN 0 ELSE (5 * q[i - 1]) % 10)
      + (IF i <= Len(q) THEN q[i] \div 2 ELSE 0)]

TimesFiveToTheEighth(q) ==
    TimesFive(TimesFive(TimesFive(TimesFive(TimesFive(TimesFive(TimesFive(TimesFive(q))))))))

\* 5^n * acc.  Each product is bound as a value before the next is taken,
\* eight factors at a time, which keeps the evaluation shallow.
RECURSIVE PowerOfFive(_, _)
PowerOfFive(n, acc) ==
    IF n = 0 THEN acc
    ELSE IF n >= 8
         THEN CHOOSE r \in {PowerOfFive(n - 8, v) : v \in {TimesFiveToTheEighth(acc)}} : TRUE
         ELSE CHOOSE r \in {PowerOfFive(n - 1, v) : v \in {TimesFive(acc)}} : TRUE

\* 10^Len(q) - 1 - q.
NinesComplement(q) == [i \in 1..Len(q) |-> 9 - q[i]]

\* q with zeros at the front, n digits in all.
PadLeft(q, n) == [i \in 1..n |-> IF i <= n - Len(q) THEN 0 ELSE q[i - (n - Len(q))]]

\* x < y for two long natural numbers.
LongLess(x, y) ==
    LET n == IF Len(x) > Len(y) THEN Len(x) ELSE Len(y)
        px == PadLeft(x, n)
        py == PadLeft(y, n)
    IN \E i \in 1..n : px[i] < py[i] /\ \A j \in 1..(i - 1) : px[j] = py[j]

BitLength(n) == CHOOSE b \in 0..31 : (b = 0 \/ n >= 2^(b - 1)) /\ (b = 31 \/ n < 2^b)

\* The n-digit decimal nearest to the number with the significant digits D,
\* when it reads back as that number, and else the same with n + 1 digits.
\* lower and upper are the distances to the midpoints between the number and
\* its two neighbours among the doubles, in units that need pad more digits
\* than D; a decimal at a midpoint reads back as the number, whose
\* significand is even.  carry is 1 when rounding up adds a digit.
RECURSIVE Shortest(_, _, _, _, _)
Shortest(D, pad, lower, upper, n) ==
    LET kept == SubSeq(D, 1, n)
        rest == SubSeq(D, n + 1, Len(D))
        below == DigitValues(rest, pad)
        exact == \A i \in 1..Len(below) : below[i] = 0
        half == \A i \in 1..Len(below) : below[i] = (IF i = 1 THEN 5 ELSE 0)
        downOk == ~LongLess(lower, below)
        upOk == ~exact /\ LongLess(NinesComplement(below), upper)
        downNearer == ~LongLess(NinesComplement(below), below)
        up == Increment(kept, n)
    IN IF downOk /\ (~upOk \/ downNearer
                       \/ (half /\ DigitValue(CharAt(kept, n)) % 2 = 0))
       THEN [digits |-> StripTrailingZeros(kept, n), carry |-> 0]
       ELSE IF upOk
            THEN [digits |-> StripTrailingZeros(up, Len(up)), carry |-> Len(up) - n]
            ELSE Shortest(D, pad, lower, upper, n + 1)

\* Number::toString steps 6 to 10, for the digits s and the decimal point
\* after the first n of them (before them when n <= 0).
Format(s, n) ==
    LET k == Len(s)
        e == n - 1
        exponent == IF e < 0 THEN "-" \o NatToString(0 - e) ELSE "+" \o NatToString(e)
    IN IF k <= n /\ n <= 21 THEN s \o Zeros(n - k)
       ELSE IF 0 < n /\ n <= 21 THEN SubSeq(s, 1, n) \o "." \o SubSeq(s, n + 1, k)
       ELSE IF -6 < n /\ n <= 0 THEN "0." \o Zeros(0 - n) \o s
       ELSE IF k = 1 THEN s \o "e" \o exponent
       ELSE CharAt(s, 1) \o "." \o SubSeq(s, 2, k) \o "e" \o exponent

\* Number to string, as in a template literal (Number::toString): the
\* fewest digits that read back as the same double, written as a decimal, or
\* with an exponent for a magnitude below 1e-6 or from 1e21 on.  A decimal of
\* at most 15 digits reads back as one double only, so that the digits of
\* the exact value are the fewest when there are at most 15 of them.
NumberToString(x) ==
    LET a == IF x.num < 0 THEN 0 - x.num ELSE x.num
        sign == IF x.num < 0 THEN "-" ELSE ""
        whole == IF a \div x.den = 0 THEN "" ELSE NatToString(a \div x.den)
        fraction == FractionDigits(a % x.den, x.den)
        zeros == IF whole = "" THEN LeadingZeros(fraction) ELSE 0
        D == whole \o SubSeq(fraction, zeros + 1, Len(fraction))
        bits == BitLength(Lowest(a, x.den).num)
        F == 54 + Len(fraction) - bits
        upper == PowerOfFive(F, <<1>>) \o <<0>>
        lower == IF Lowest(a, x.den).num = 1 THEN PowerOfFive(F + 1, <<1>>) ELSE upper
        s == IF Len(D) <= 15
             THEN [digits |-> StripTrailingZeros(D, Len(D)), carry |-> 0]
             ELSE Shortest(D, F + 1 - Len(fraction), lower, upper, 1)
    IN IF a = 0 THEN "0"
       ELSE sign \o Format(s.digits, Len(whole) - zeros + s.carry)

(***************************************************************************)
(* utils: the path generators.                                             *)
(***************************************************************************)
\* The control point distance keeps the sign of tx - sx.
generateBezierPath_signed(sx, sy, tx, ty) ==
    LET controlPointDistance == Times(Minus(tx, sx), Half)
        cx1 == Plus(sx, controlPointDistance)
        cy1 == sy
        cx2 == Minus(tx, controlPointDistance)
        cy2 == ty
    IN "M " \o NumberToString(sx) \o " " \o NumberToString(sy)
          \o " C " \o NumberToString(cx1) \o " " \o NumberToString(cy1)
          \o ", " \o NumberToString(cx2) \o " " \o NumberToString(cy2)
          \o ", " \o NumberToString(tx) \o " " \o NumberToString(ty)

generateBezierPath(sx, sy, tx, ty) ==
    LET controlPointDistance == Times(MathAbs(Minus(tx, sx)), Half)
        cx1 == Plus(sx, controlPointDistance)
        cy1 == sy
        cx2 == Minus(tx, controlPointDistance)
        cy2 == ty
    IN "M " \o NumberToString(sx) \o " " \o NumberToString(sy)
          \o " C " \o NumberToString(cx1) \o " " \o NumberToString(cy1)
          \o ", " \o NumberToString(cx2) \o " " \o NumberToString(cy2)
          \o ", " \o NumberToString(tx) \o " " \o NumberToString(ty)

\* The coordinates the generators are called with.
Coordinates == {Whole(-3), Whole(0), [num |-> 5, den |-> 2], Whole(50), Whole(100)}

BezierPath(sx, sy, tx, ty) ==
    /\ path' = [fn |-> "generateBezierPath", args |-> <<sx, sy, tx, ty>>,
                out |-> generateBezierPath(sx, sy, tx, ty)]
    /\ UNCHANGED <<storeVars, widgetVars, canvas>>

\* x < y.
Less(x, y) == Scaled(x, CommonDen(x, y)) < Scaled(y, CommonDen(x, y))

\* Array.prototype.join(' ').
RECURSIVE join(_, _)
join(parts, sep) ==
    IF Len(parts) = 0 THEN ""
    ELSE IF Len(parts) = 1 THEN parts[1]
         ELSE parts[1] \o sep \o join(Tail(parts), sep)

\* The turn direction is taken from sy > ty.
generateSmoothStepPath_flipped(sx, sy, tx, ty, radiusArg) ==
    LET radius == IF radiusArg = << >> THEN Whole(2) ELSE radiusArg[1]
        midX == Times(Plus(sx, tx), Half)
        direction == IF Less(ty, sy) THEN Whole(1) ELSE Whole(-1)
    IN join(<<"M " \o NumberToString(sx) \o " " \o NumberToString(sy),
              "H " \o NumberToString(Minus(midX, radius)),
              "Q " \o NumberToString(midX) \o "," \o NumberToString(sy) \o " "
                   \o NumberToString(midX) \o ","
                   \o NumberToString(Plus(sy, Times(direction, radius))),
              "V " \o NumberToString(Minus(ty, Times(direction, radius))),
              "Q " \o NumberToString(midX) \o "," \o NumberToString(ty) \o " "
                   \o NumberToString(Plus(midX, radius)) \o "," \o NumberToString(ty),
              "H " \o NumberToString(tx)>>, " ")

\* radiusArg is << >> for a call without the radius (default 2), <<r>> with it.
generateSmoothStepPath(sx, sy, tx, ty, radiusArg) ==
    LET radius == IF radiusArg = << >> THEN Whole(2) ELSE radiusArg[1]
        midX == Times(Plus(sx, tx), Half)
        direction == IF Less(sy, ty) THEN Whole(1) ELSE Whole(-1)
    IN join(<<"M " \o NumberToString(sx) \o " " \o NumberToString(sy),
              "H " \o NumberToString(Minus(midX, radius)),
              "Q " \o NumberToString(midX) \o "," \o NumberToString(sy) \o " "
                   \o NumberToString(midX) \o ","
                   \o NumberToString(Plus(sy, Times(direction, radius))),
              "V " \o NumberToString(Minus(ty, Times(direction, radius))),
              "Q " \o NumberToString(midX) \o "," \o NumberToString(ty) \o " "
                   \o NumberToString(Plus(midX, radius)) \o "," \o NumberToString(ty),
              "H " \o NumberToString(tx)>>, " ")

\* The coordinates and radii the smooth step generator is called with.
StepXs == {Whole(10), [num |-> 45, den |-> 2], Whole(100)}
StepYs == {Whole(20), [num |-> 45, den |-> 2], Whole(80)}
Radii == {<< >>, <<Whole(0)>>, <<Half>>, <<Whole(5)>>}

SmoothStepPath(sx, sy, tx, ty, radiusArg) ==
    /\ path' = [fn |-> "generateSmoothStepPath", args |-> <<sx, sy, tx, ty, radiusArg>>,
                out |-> generateSmoothStepPath(sx, sy, tx, ty, radiusArg)]
    /\ UNCHANGED <<storeVars, widgetVars, canvas>>

NextGeometry ==
    \/ \E sx \in Coordinates, sy \in Coordinates, tx \in Coordinates, ty \in Coordinates :
          BezierPath(sx, sy, tx, ty)
    \/ \E sx \in StepXs, sy \in StepYs, tx \in StepXs, ty \in StepYs, radiusArg \in Radii :
          SmoothStepPath(sx, sy, tx, ty, radiusArg)

SpecGeometry == Init /\ [][NextGeometry]_vars

(***************************************************************************)
(* Geometry of one widget.  canvas holds what the DOM gives: root is the   *)
(* bounding rectangle of the root element (null while the template ref is  *)
(* not set), nodes is the node registry of the store (identifier to        *)
(* element), elementX and elementY are the refs of useMouseInElement(root).*)
(***************************************************************************)
\* The node components of this widget.
CanvasSource == [id |-> "a", type |-> "source"]
CanvasTarget == [id |-> "c", type |-> "target"]
CanvasNodes == {CanvasSource, CanvasTarget}

DOMRect(left, top, width, height) ==
    [width |-> width, height |-> height, left |-> left, right |-> Plus(left, width),
     top |-> top, bottom |-> Plus(top, height)]

\* element.getBoundingClientRect() of the node elements, in viewport
\* coordinates.
getBoundingClientRect(element) ==
    IF element = ElementOf(CanvasSource)
    THEN DOMRect(Whole(10), Whole(6), Whole(12), Whole(5))
    ELSE DOMRect(Whole(28), Whole(19), Whole(12), Whole(10))

\* The places of the root element, and the pointer positions relative to it.
RootRects == {DOMRect(Whole(0), Whole(0), Whole(60), Whole(40)),
              DOMRect(Whole(8), Whole(4), Whole(60), Whole(40))}
PointerXs == {Whole(-3), Whole(0), Whole(20)}
PointerYs == {Whole(0), [num |-> 5, den |-> 2], Whole(20)}

\* useElementBounding(el): the rectangle of the element, all zero while there
\* is no element.  A value that is not an element (el read an inherited
\* property) has no getBoundingClientRect: the update fails and the refs
\* keep their initial zeros.
useElementBounding(el) ==
    IF el = Null \/ IsInherited(el[1]) THEN DOMRect(Whole(0), Whole(0), Whole(0), Whole(0))
    ELSE getBoundingClientRect(el[1])

\* The rectangle is the element's own: the root's place is not subtracted.
rect_viewport(cv, id) ==
    IF cv.root # Null
    THEN <<useElementBounding(Get(cv.nodes, id))>>
    ELSE Null

\* useNode(id).rect: undefined (Null) while there is no root element.
rect(cv, id) ==
    IF cv.root # Null
    THEN LET b == useElementBounding(Get(cv.nodes, id))
             offset == cv.root[1]
         IN <<[width |-> b.width,
               height |-> b.height,
               left |-> Minus(b.left, offset.left),
               right |-> Minus(b.right, offset.left),
               top |-> Minus(b.top, offset.top),
               bottom |-> Minus(b.bottom, offset.top)]>>
    ELSE Null

\* x / 2.
Halved(x) == Lowest(x.num, 2 * x.den)

\* useConnectionUtils(source, target).coords
useConnectionUtils_coords(cv, source, target) ==
    LET sourceRect == rect(cv, source)
        targetRect == rect(cv, target)
    IN IF sourceRect = Null \/ targetRect = Null THEN Null
       ELSE <<[source |-> [x |-> sourceRect[1].right,
                           y |-> Plus(sourceRect[1].top, Halved(sourceRect[1].height))],
               target |-> [x |-> targetRect[1].left,
                           y |-> Plus(targetRect[1].top, Halved(targetRect[1].height))]]>>

\* JavaScript truthiness of a number: 0 is falsy.
TruthyNumber(x) == x.num # 0

\* useConnectionPreview: sourceRect.  isDragging is the ref itself, an object,
\* so !isDragging is false whatever its value.  When nodes.value[dragSource]
\* is an inherited property, the call of el.getBoundingClientRect throws.
useConnectionPreview_sourceRect(st, cv) ==
    IF ~Truthy(st.dragSource) \/ cv.root = Null \/ FALSE THEN Null
    ELSE LET el == Get(cv.nodes, st.dragSource[1])
         IN IF el = Null THEN Null
            ELSE IF IsInherited(el[1])
            THEN Thrown("TypeError: el.getBoundingClientRect is not a function")
            ELSE LET r == getBoundingClientRect(el[1])
                     offset == cv.root[1]
                 IN <<[width |-> r.width,
                       height |-> r.height,
                       left |-> Minus(r.left, offset.left),
                       right |-> Minus(r.right, offset.left),
                       top |-> Minus(r.top, offset.top),
                       bottom |-> Minus(r.bottom, offset.top)]>>

\* useConnectionPreview: coords.
useConnectionPreview_coords(st, cv) ==
    LET sourceRect == useConnectionPreview_sourceRect(st, cv)
    IN IF IsThrown(sourceRect) THEN sourceRect
       ELSE IF sourceRect = Null \/ ~TruthyNumber(cv.elementX) \/ ~TruthyNumber(cv.elementY)
       THEN Null
       ELSE <<[source |-> [x |-> sourceRect[1].right,
                           y |-> Plus(sourceRect[1].top, Halved(sourceRect[1].height))],
               target |-> [x |-> cv.elementX, y |-> cv.elementY]]>>

\* The getters of useConnectionUtils, given the value of its coords.
useConnectionUtils_getBezierPath(coords) ==
    IF coords = Null THEN ""
    ELSE LET sx == coords[1].source.x
             sy == coords[1].source.y
             tx == coords[1].target.x
             ty == coords[1].target.y
         IN generateBezierPath(sx, sy, tx, ty)

useConnectionUtils_getSmoothStepPath(coords, radiusArg) ==
    LET radius == IF radiusArg = << >> THEN Whole(2) ELSE radiusArg[1]
    IN IF coords = Null THEN ""
       ELSE LET sx == coords[1].source.x
                sy == coords[1].source.y
                tx == coords[1].target.x
                ty == coords[1].target.y
            IN generateSmoothStepPath(sx, sy, tx, ty, <<radius>>)

\* The base corners are offset vertically by the whole size.
useConnectionUtils_getArrowPath_wide(coords, sizeArg, offsetArg) ==
    LET size == IF sizeArg = << >> THEN Whole(4) ELSE sizeArg[1]
        offset == IF offsetArg = << >> THEN Whole(0) ELSE offsetArg[1]
    IN IF coords = Null THEN ""
       ELSE LET tx == Minus(coords[1].target.x, offset)
                ty == coords[1].target.y
                ax == Minus(tx, size)
                ay == Minus(ty, size)
                bx == Minus(tx, size)
                by == Plus(ty, size)
            IN "M " \o NumberToString(tx) \o " " \o NumberToString(ty)
                  \o " L " \o NumberToString(ax) \o " " \o NumberToString(ay)
                  \o " L " \o NumberToString(bx) \o " " \o NumberToString(by) \o " Z"

useConnectionUtils_getArrowPath(coords, sizeArg, offsetArg) ==
    LET size == IF sizeArg = << >> THEN Whole(4) ELSE sizeArg[1]
        offset == IF offsetArg = << >> THEN Whole(0) ELSE offsetArg[1]
    IN IF coords = Null THEN ""
       ELSE LET tx == Minus(coords[1].target.x, offset)
                ty == coords[1].target.y
                ax == Minus(tx, size)
                ay == Minus(ty, Halved(size))
                bx == Minus(tx, size)
                by == Plus(ty, Halved(size))
            IN "M " \o NumberToString(tx) \o " " \o NumberToString(ty)
                  \o " L " \o NumberToString(ax) \o " " \o NumberToString(ay)
                  \o " L " \o NumberToString(bx) \o " " \o NumberToString(by) \o " Z"

\* The getters of useConnectionPreview, given the value of its coords; when
\* reading coords throws, so does the getter.
useConnectionPreview_getBezierPath(coords) ==
    IF IsThrown(coords) THEN coords
    ELSE IF coords = Null THEN ""
    ELSE LET sx == coords[1].source.x
             sy == coords[1].source.y
             tx == coords[1].target.x
             ty == coords[1].target.y
         IN generateBezierPath(sx, sy, tx, ty)

useConnectionPreview_getSmoothStepPath(coords, radiusArg) ==
    LET radius == IF radiusArg = << >> THEN Whole(2) ELSE radiusArg[1]
    IN IF IsThrown(coords) THEN coords
       ELSE IF coords = Null THEN ""
       ELSE LET sx == coords[1].source.x
                sy == coords[1].source.y
                tx == coords[1].target.x
                ty == coords[1].target.y
            IN generateSmoothStepPath(sx, sy, tx, ty, <<radius>>)

useConnectionPreview_getArrowPath(coords, sizeArg, offsetArg) ==
    LET size == IF sizeArg = << >> THEN Whole(4) ELSE sizeArg[1]
        offset == IF offsetArg = << >> THEN Whole(0) ELSE offsetArg[1]
    IN IF IsThrown(coords) THEN coords
       ELSE IF coords = Null THEN ""
       ELSE LET tx == Minus(coords[1].target.x, offset)
                ty == coords[1].target.y
                ax == Minus(tx, size)
                ay == Minus(ty, Halved(size))
                bx == Minus(tx, size)
                by == Plus(ty, Halved(size))
            IN "M " \o NumberToString(tx) \o " " \o NumberToString(ty)
                  \o " L " \o NumberToString(ax) \o " " \o NumberToString(ay)
                  \o " L " \o NumberToString(bx) \o " " \o NumberToString(by) \o " Z"

\* The arguments the getters are called with: << >> is an omitted argument.
ArrowSizes == {<< >>, <<Whole(4)>>, <<Whole(5)>>}
ArrowOffsets == {<< >>, <<Whole(0)>>, <<Whole(2)>>}
StepRadii == {<< >>, <<Whole(5)>>}

(***************************************************************************)
(* The widget as it is drawn.  A change of the store or of the DOM         *)
(* invalidates what was drawn (path); the getters are then called again    *)
(* by the components that render the connections and the preview.          *)
(***************************************************************************)
\* A store command of the host or of a node handler.
CanvasCommand(cmd) ==
    LET st == Run(Store, cmd)
    IN /\ mapping' = st.mapping
       /\ isDragging' = st.isDragging
       /\ dragSource' = st.dragSource
       /\ last' = [op |-> cmd.op, a |-> cmd.a, b |-> cmd.b, pre |-> Store]
       /\ order' = Inserted(order, st.mapping)
       /\ gesture' = NoGesture
       /\ path' = NoPath
       /\ UNCHANGED <<widgetVars, canvas>>

\* The DOM changes: cv is the new canvas.
CanvasChange(cv) ==
    /\ canvas' = cv
    /\ path' = NoPath
    /\ UNCHANGED <<storeVars, widgetVars>>

\* The root element is mounted at, or moves to, the place r.
RootMounted(r) == CanvasChange([canvas EXCEPT !.root = <<r>>])

RootUnmounted ==
    /\ canvas.root # Null
    /\ CanvasChange([canvas EXCEPT !.root = Null])

\* The node component n sets its el (ref="el"): to its element at mount and
\* again whenever it is rendered anew, to null at unmount.  canvas.mounted is
\* the set of mounted node components.
NodeEl(n, mounted) ==
    /\ mounted \/ n \in canvas.mounted
    /\ CanvasChange([canvas EXCEPT
           !.nodes = setEl([nodes |-> canvas.nodes], n.id,
                           IF mounted THEN <<ElementOf(n)>> ELSE Null).nodes,
           !.mounted = IF mounted THEN @ \cup {n} ELSE @ \ {n}])

\* useMouseInElement(root): the pointer moves to (x, y) relative to the root
\* element; without a root element the refs are not updated.
PointerMove(x, y) ==
    /\ canvas.root # Null
    /\ CanvasChange([canvas EXCEPT !.elementX = x, !.elementY = y])

\* A getter was called with args and returned out.
Called(fn, args, out) ==
    /\ path' = [fn |-> fn, args |-> args, out |-> out]
    /\ UNCHANGED <<storeVars, widgetVars, canvas>>

\* ValueMapperConnection of the i-th connection: its useConnectionUtils.
ConnectionCoords(i) ==
    /\ i \in 1..Len(connections(Store))
    /\ LET c == connections(Store)[i]
       IN Called("useConnectionUtils.coords", <<c.source, c.target>>,
                 useConnectionUtils_coords(canvas, c.source, c.target))

ConnectionBezierPath(i) ==
    /\ i \in 1..Len(connections(Store))
    /\ LET c == connections(Store)[i]
       IN Called("useConnectionUtils.getBezierPath", <<c.source, c.target>>,
                 useConnectionUtils_getBezierPath(
                     useConnectionUtils_coords(canvas, c.source, c.target)))

ConnectionSmoothStepPath(i, radiusArg) ==
    /\ i \in 1..Len(connections(Store))
    /\ LET c == connections(Store)[i]
       IN Called("useConnectionUtils.getSmoothStepPath", <<c.source, c.target, radiusArg>>,
                 useConnectionUtils_getSmoothStepPath(
                     useConnectionUtils_coords(canvas, c.source, c.target), radiusArg))

ConnectionArrowPath(i, sizeArg, offsetArg) ==
    /\ i \in 1..Len(connections(Store))
    /\ LET c == connections(Store)[i]
       IN Called("useConnectionUtils.getArrowPath", <<c.source, c.target, sizeArg, offsetArg>>,
                 useConnectionUtils_getArrowPath(
                     useConnectionUtils_coords(canvas, c.source, c.target), sizeArg, offsetArg))

\* The getters of useConnectionPreview.
PreviewCoords ==
    Called("useConnectionPreview.coords", << >>, useConnectionPreview_coords(Store, canvas))

PreviewBezierPath ==
    Called("useConnectionPreview.getBezierPath", << >>,
           useConnectionPreview_getBezierPath(useConnectionPreview_coords(Store, canvas)))

PreviewSmoothStepPath(radiusArg) ==
    Called("useConnectionPreview.getSmoothStepPath", <<radiusArg>>,
           useConnectionPreview_getSmoothStepPath(
               useConnectionPreview_coords(Store, canvas), radiusArg))

PreviewArrowPath(sizeArg, offsetArg) ==
    Called("useConnectionPreview.getArrowPath", <<sizeArg, offsetArg>>,
           useConnectionPreview_getArrowPath(
               useConnectionPreview_coords(Store, canvas), sizeArg, offsetArg))

NextCanvas ==
    \/ \E cmd \in Commands : CanvasCommand(cmd)
    \/ \E r \in RootRects : RootMounted(r)
    \/ RootUnmounted
    \/ \E n \in CanvasNodes, mounted \in BOOLEAN : NodeEl(n, mounted)
    \/ \E x \in PointerXs, y \in PointerYs : PointerMove(x, y)
    \/ \E i \in 1..Cardinality(WidgetSourceNodes) : ConnectionCoords(i)
    \/ \E i \in 1..Cardinality(WidgetSourceNodes) : ConnectionBezierPath(i)
    \/ \E i \in 1..Cardinality(WidgetSourceNodes), r \in StepRadii : ConnectionSmoothStepPath(i, r)
    \/ \E i \in 1..Cardinality(WidgetSourceNodes), s \in ArrowSizes, o \in ArrowOffsets :
          ConnectionArrowPath(i, s, o)
    \/ PreviewCoords
    \/ PreviewBezierPath
    \/ \E r \in StepRadii : PreviewSmoothStepPath(r)
    \/ \E s \in ArrowSizes, o \in ArrowOffsets : PreviewArrowPath(s, o)

SpecCanvas == Init /\ [][NextCanvas]_vars

\* The node components of a host page mount and unmount: the nodes of
\* Nodes, where the source node "a" and the target node "a" share their
\* identifier.
NextRegistry == \E n \in Nodes, mounted \in BOOLEAN : NodeEl(n, mounted)

SpecRegistry == Init /\ [][NextRegistry]_vars

(***************************************************************************)
(* Properties.                                                             *)
(***************************************************************************)
KeySet(obj) == {obj[i][1] : i \in 1..Len(obj)}

Idle == ~isDragging /\ dragSource = Null

\* C1: startConnection(s) directly followed by endConnection(t) leaves the
\* mapping with s mapped to t, every other entry as it was before the two
\* calls, and the drag state Idle - for every string s, every t and every
\* prior mapping and drag state.
C1_StartThenEnd ==
    [][(last.op = "startConnection" /\ last'.op = "endConnection") =>
          /\ Get(mapping', last.a) = <<last'.a>>
          /\ \A k \in Ids \ {last.a} : Get(mapping', k) = Get(last.pre.mapping, k)
          /\ ~isDragging'
          /\ dragSource' = Null]_vars

\* C2: in every reachable state of the store, dragSource is non-null
\* exactly when isDragging is true.
C2_DragSourceIffDragging == (dragSource # Null) <=> isDragging

C2_Witness == last.op = "startConnection" /\ isDragging /\ dragSource = <<"">>

\* C3: hasConnection(x, "source"), and hasConnection(x) without the role,
\* is true exactly when x is a key of the current mapping: true for s right
\* after addConnection(s, t), false for s right after removeConnection(s).
C3_HasConnectionSource ==
    /\ \A x \in Ids :
          /\ hasConnection(Store, x, "source") = (x \in KeySet(mapping))
          /\ hasConnection(Store, x, Undefined) = (x \in KeySet(mapping))
    /\ last.op = "addConnection" => hasConnection(Store, last.a, "source")
    /\ last.op = "removeConnection" => ~hasConnection(Store, last.a, Undefined)

C3_Witness ==
    /\ last.op = "removeConnection"
    /\ HasOwn(last.pre.mapping, last.a)
    /\ Len(mapping) > 0
    /\ \E x \in TargetIds : includes(ObjectValues(mapping), x) /\ ~HasOwn(mapping, x)

\* C4: cancelConnection, from any state, leaves the mapping as it was and
\* the drag state Idle.
C4_CancelKeepsMapping ==
    last.op = "cancelConnection" => (mapping = last.pre.mapping /\ Idle)

C4_Witness ==
    /\ last.op = "cancelConnection"
    /\ last.pre.isDragging
    /\ HasOwn(mapping, last.pre.dragSource[1])

\* C5: endConnection(t) called while the store is not dragging leaves the
\* mapping as it was and the drag state Idle.
C5_EndWhenIdle ==
    (last.op = "endConnection" /\ ~last.pre.isDragging) =>
        (mapping = last.pre.mapping /\ Idle)

C5_Witness ==
    last.op = "endConnection" /\ ~last.pre.isDragging /\ Len(mapping) > 0

\* C6: the drag state is Idle or Dragging; it goes from Idle to Dragging
\* only by startConnection, from Dragging to Idle only by endConnection,
\* which commits dragSource -> t, or by cancelConnection, which commits
\* nothing; addConnection, removeConnection and hasConnection leave
\* isDragging and dragSource as they are.
C6_DragStateMachine ==
    [][/\ isDragging' \in BOOLEAN
       /\ (~isDragging /\ isDragging') => last'.op = "startConnection"
       /\ (isDragging /\ ~isDragging') =>
             \/ /\ last'.op = "endConnection"
                /\ Get(mapping', dragSource[1]) = <<last'.a>>
             \/ /\ last'.op = "cancelConnection"
                /\ mapping' = mapping
       /\ last'.op \in {"addConnection", "removeConnection", "hasConnection"} =>
             (isDragging' = isDragging /\ dragSource' = dragSource)]_vars

\* C7: a mouse gesture on an idle store - mouse-down on an unconnected
\* source node, mouse-up on a target node, the click on the root - flips
\* isDragging exactly twice (Idle -> Dragging -> Idle) and commits exactly
\* one entry, source -> target, leaving every other entry as it was.
C7_OneGesture ==
    gesture.phase = 3 =>
        /\ gesture.flips = 2
        /\ gesture.commits = 1
        /\ Idle
        /\ Get(mapping, gesture.source) = <<gesture.target>>
        /\ \A k \in SourceNodes \ {gesture.source} :
              Get(mapping, k) = Get(gesture.pre, k)

\* C8: through the node event handlers a source that has a connection
\* never becomes dragSource, and no event other than a removal changes or
\* deletes an existing mapping entry.
C8_ConnectedSourceNeverDragged ==
    [][/\ (dragSource' # Null /\ dragSource' # dragSource) =>
             ~hasConnection(Store, dragSource'[1], "source")
       /\ last'.op # "removeConnection" =>
             \A k \in KeySet(mapping) : Get(mapping', k) = Get(mapping, k)]_vars

\* C9: the connections list is the projection of the current mapping: one
\* connection per entry, with id = source + "->" + target, none without an
\* entry, no two with the same source; the entry just added is in the
\* list and the source just removed is not.
C9_ConnectionsProjection ==
    LET cs == connections(Store)
    IN /\ Len(cs) = Cardinality(KeySet(mapping))
       /\ \A i \in 1..Len(cs) :
             /\ cs[i].id = cs[i].source \o "->" \o cs[i].target
             /\ Get(mapping, cs[i].source) = <<cs[i].target>>
       /\ \A k \in KeySet(mapping) : \E i \in 1..Len(cs) : cs[i].source = k
       /\ \A i, j \in 1..Len(cs) : i # j => cs[i].source # cs[j].source
       /\ last.op = "addConnection" =>
             \E i \in 1..Len(cs) :
                cs[i] = [id |-> last.a \o "->" \o last.b, source |-> last.a, target |-> last.b]
       /\ last.op = "removeConnection" =>
             \A i \in 1..Len(cs) : cs[i].source # last.a

C9_Witness ==
    /\ last.op = "addConnection"
    /\ HasOwn(last.pre.mapping, last.a)
    /\ \E i, j \in 1..Len(connections(Store)) :
          /\ i # j
          /\ connections(Store)[i].target = connections(Store)[j].target

\* C10: no two distinct connections of the connections list have the same
\* id, whatever strings are used as sources and targets.
C10_UniqueConnectionIds ==
    \A i, j \in 1..Len(connections(Store)) :
        i # j => connections(Store)[i].id # connections(Store)[j].id

\* The sources of the connections list, in list order.
ConnectionSources == [i \in 1..Len(connections(Store)) |-> connections(Store)[i].source]

\* C11 (as stated): the connections appear in the order in which their
\* sources were (most recently) inserted, for any string identifiers.
C11_InsertionOrder == ConnectionSources = order

\* The number a digit string denotes.
RECURSIVE DecimalValue(_)
DecimalValue(k) ==
    IF Len(k) = 0 THEN 0
    ELSE 10 * DecimalValue(SubSeq(k, 1, Len(k) - 1)) + DigitValue(CharAt(k, Len(k)))

\* The digit strings of the set S in ascending numeric order.
RECURSIVE Ascending(_)
Ascending(S) ==
    IF S = {} THEN << >>
    ELSE LET m == CHOOSE x \in S : \A y \in S : DecimalValue(x) <= DecimalValue(y)
         IN <<m>> \o Ascending(S \ {m})

NotArrayIndex(k) == ~IsArrayIndex(k)

\* C11 (amended): the connections appear with the sources that are
\* array-index strings first, in ascending numeric order, and then the
\* other sources in the order in which they were (most recently) inserted.
C11_OwnKeyOrder ==
    ConnectionSources =
        Ascending({order[i] : i \in {j \in 1..Len(order) : IsArrayIndex(order[j])}})
            \o KeepKeys(order, NotArrayIndex)

C11_Witness ==
    /\ order = <<"b", "10", "a", "2">>
    /\ ConnectionSources = <<"2", "10", "b", "a">>

\* C12: after addConnection(source, target) the mapping maps source to
\* target, whatever source mapped to before; the entry of every other
\* source and the drag state are as they were.
C12_AddConnection ==
    last.op = "addConnection" =>
        /\ Get(mapping, last.a) = <<last.b>>
        /\ \A k \in Ids \ {last.a} : Get(mapping, k) = Get(last.pre.mapping, k)
        /\ isDragging = last.pre.isDragging
        /\ dragSource = last.pre.dragSource

C12_Witness ==
    /\ last.op = "addConnection"
    /\ HasOwn(last.pre.mapping, last.a)
    /\ Get(last.pre.mapping, last.a) # <<last.b>>
    /\ Len(mapping) >= 2
    /\ isDragging

\* C13: after removeConnection(source) the mapping has no entry for source
\* and the entry of every other source is as it was; when source was not a
\* key the mapping has the same entries in the same order as before.
C13_RemoveConnection ==
    last.op = "removeConnection" =>
        /\ ~HasOwn(mapping, last.a)
        /\ \A k \in Ids \ {last.a} : Get(mapping, k) = Get(last.pre.mapping, k)
        /\ ~HasOwn(last.pre.mapping, last.a) => mapping = last.pre.mapping

C13_Witness ==
    /\ last.op = "removeConnection"
    /\ ~HasOwn(last.pre.mapping, last.a)
    /\ Len(mapping) >= 2

\* C14: hasConnection(x, "target") is true exactly when some source of the
\* current mapping maps to x, whether or not x is itself a key.
C14_HasConnectionTarget ==
    \A x \in Ids :
        hasConnection(Store, x, "target") = (\E k \in KeySet(mapping) : Get(mapping, k) = <<x>>)

C14_Witness ==
    /\ last.op = "hasConnection"
    /\ last.a = "a"
    /\ last.b = "target"
    /\ HasOwn(mapping, "a")
    /\ ~hasConnection(Store, "a", "target")
    /\ hasConnection(Store, "c", "target")

\* C15: a startConnection(s2) issued while dragging from another source s1
\* leaves dragSource = s2 and the mapping as it was; the endConnection(t)
\* that follows commits s2 -> t and leaves every other entry, that of s1
\* included, as it was.
C15_ReentrantStart ==
    [][(/\ last.op = "startConnection"
        /\ last.pre.isDragging
        /\ last.pre.dragSource # <<last.a>>) =>
          /\ dragSource = <<last.a>>
          /\ mapping = last.pre.mapping
          /\ last'.op = "endConnection" =>
                /\ Get(mapping', last.a) = <<last'.a>>
                /\ \A k \in Ids \ {last.a} : Get(mapping', k) = Get(mapping, k)]_vars

\* The state of the widget whose root is j.
View(j) == Load(stores[j])

\* C16: a step made in one widget (the setup or a click of its root, a
\* store command, a pointer event or an el assignment of a component below
\* it) leaves the store of every other widget in place, with the same
\* mapping, isDragging, dragSource and node registry.
C16_WidgetsIsolated ==
    [][\A j \in DOMAIN stores :
          j # act'.place =>
              /\ j \in DOMAIN stores'
              /\ stores'[j] = stores[j]
              /\ View(j)' = View(j)]_vars

C16_Witness ==
    /\ DOMAIN stores = Instances
    /\ act.place = "root2"
    /\ act.by = "useNode"
    /\ View("root1").isDragging
    /\ ~View("root2").isDragging
    /\ View("root1").mapping = << >>
    /\ View("root2").mapping # << >>
    /\ View("root1").nodes # View("root2").nodes

ConsumerCalls ==
    {"useValueMapperStore", "useNode", "useConnectionUtils", "useConnectionPreview"}

\* C17: a call of useValueMapperStore, directly or through useNode,
\* useConnectionPreview or useConnectionUtils, at a place with no root above
\* it raises an error, returns no store and changes nothing; at a place
\* below a root it raises no error and returns the store of that root.
C17_NoStoreThrows ==
    [][act'.by \in ConsumerCalls =>
          IF act'.place \in DOMAIN stores
          THEN ~act'.threw /\ act'.store = <<stores[act'.place]>>
          ELSE /\ act'.threw
               /\ act'.store = << >>
               /\ heap' = heap
               /\ stores' = stores]_vars

C17_Witness ==
    /\ act.by = "useNode"
    /\ act.place = Outside
    /\ act.threw
    /\ "root1" \in DOMAIN stores
    /\ View("root1").isDragging

\* C18: useValueMapperStore returns the store of the root above the place
\* when there is one; when there is none it creates a store, provides it
\* to the place and returns it.
C18_CreatesMissingStore ==
    [][act'.by = "useValueMapperStore" =>
          IF act'.place \in DOMAIN stores
          THEN act'.store = <<stores[act'.place]>>
          ELSE /\ ~act'.threw
               /\ act'.place \in DOMAIN stores'
               /\ act'.store = <<stores'[act'.place]>>]_vars

\* C19: while dragging from a source s, a touchend on a source node whose
\* touch point lies over the element of the target node t commits s -> t
\* and leaves the store Idle, the state that a mouse-up on t leaves.
C19_TouchLikeMouse ==
    \A t \in TargetNodes :
        (/\ last.op = "touchend"
         /\ last.b = "source"
         /\ last.pre.isDragging
         /\ last.over = NodeElement([id |-> t, type |-> "target"])) =>
            /\ Store = DispatchMouseUp(last.pre, [id |-> t, type |-> "target"], "node")[1]
            /\ Idle
            /\ Get(mapping, last.pre.dragSource[1]) = <<t>>

\* The path "M sx sy C c1x c1y, c2x c2y, tx ty".
CubicPath(sx, sy, c1x, c1y, c2x, c2y, tx, ty) ==
    "M " \o NumberToString(sx) \o " " \o NumberToString(sy)
        \o " C " \o NumberToString(c1x) \o " " \o NumberToString(c1y)
        \o ", " \o NumberToString(c2x) \o " " \o NumberToString(c2y)
        \o ", " \o NumberToString(tx) \o " " \o NumberToString(ty)

\* C20: bezierPath(sx, sy, tx, ty) is "M sx sy C c1x sy, c2x ty, tx ty" with
\* c1x = sx + |tx - sx| / 2 and c2x = tx - |tx - sx| / 2: both control points
\* at the horizontal middle when tx >= sx, at (3 sx - tx) / 2 and
\* (3 tx - sx) / 2 when tx < sx; bezierPath(0, 0, 100, 50) is
\* "M 0 0 C 50 0, 50 50, 100 50"; with sy = ty every point has that one
\* vertical coordinate.
C20_BezierPath ==
    path.fn = "generateBezierPath" =>
        LET sx == path.args[1]
            sy == path.args[2]
            tx == path.args[3]
            ty == path.args[4]
            Three(x) == Plus(x, Plus(x, x))
            forward == Minus(tx, sx).num >= 0
            c1x == IF forward THEN Halved(Plus(sx, tx)) ELSE Halved(Minus(Three(sx), tx))
            c2x == IF forward THEN Halved(Plus(sx, tx)) ELSE Halved(Minus(Three(tx), sx))
        IN /\ path.out = CubicPath(sx, sy, c1x, sy, c2x, ty, tx, ty)
           /\ sy = ty => path.out = CubicPath(sx, sy, c1x, sy, c2x, sy, tx, sy)
           /\ path.args = <<Whole(0), Whole(0), Whole(100), Whole(50)>> =>
                 path.out = "M 0 0 C 50 0, 50 50, 100 50"

C20_Witness ==
    /\ path.fn = "generateBezierPath"
    /\ path.args = <<Whole(100), [num |-> 5, den |-> 2], Whole(-3), [num |-> 5, den |-> 2]>>
    /\ path.out = "M 100 2.5 C 151.5 2.5, -54.5 2.5, -3 2.5"

\* C21: smoothStepPath(sx, sy, tx, ty, r) is, in order, M sx sy; H midX - r
\* with midX = (sx + tx) / 2; Q midX,sy midX,sy + d r; V ty - d r;
\* Q midX,ty midX + r,ty; H tx, where d = +1 when ty > sy and -1 otherwise
\* (r = 2 when no radius is given); smoothStepPath(10, 20, 100, 80, 5) is
\* "M 10 20 H 50 Q 55,20 55,25 V 75 Q 55,80 60,80 H 100".
C21_SmoothStepPath ==
    path.fn = "generateSmoothStepPath" =>
        LET sx == path.args[1]
            sy == path.args[2]
            tx == path.args[3]
            ty == path.args[4]
            r == IF path.args[5] = << >> THEN Whole(2) ELSE path.args[5][1]
            S(x) == NumberToString(x)
            down == Minus(ty, sy).num > 0
            midX == Halved(Plus(sx, tx))
            turn1 == IF down THEN Plus(sy, r) ELSE Minus(sy, r)
            turn2 == IF down THEN Minus(ty, r) ELSE Plus(ty, r)
        IN /\ path.out = "M " \o S(sx) \o " " \o S(sy)
                            \o " H " \o S(Minus(midX, r))
                            \o " Q " \o S(midX) \o "," \o S(sy) \o " " \o S(midX) \o "," \o S(turn1)
                            \o " V " \o S(turn2)
                            \o " Q " \o S(midX) \o "," \o S(ty) \o " " \o S(Plus(midX, r)) \o "," \o S(ty)
                            \o " H " \o S(tx)
           /\ path.args = <<Whole(10), Whole(20), Whole(100), Whole(80), <<Whole(5)>> >> =>
                 path.out = "M 10 20 H 50 Q 55,20 55,25 V 75 Q 55,80 60,80 H 100"

C21_Witness ==
    /\ path.fn = "generateSmoothStepPath"
    /\ path.args = <<Whole(100), Whole(80), Whole(10), [num |-> 45, den |-> 2], <<Half>> >>
    /\ path.out = "M 100 80 H 54.5 Q 55,80 55,79.5 V 23 Q 55,22.5 55.5,22.5 H 10"

\* x <= y.
AtMost(x, y) == ~Less(y, x)

\* C22: with sx < tx and 0 <= r < (tx - sx) / 2 the smooth step path never
\* doubles back, for every sy and ty: the first horizontal run goes from sx
\* toward the midpoint, the vertical run goes from sy + d r to ty - d r in the
\* turn direction d, the last horizontal run goes on to tx.
C22_NoDoubleBack ==
    (/\ path.fn = "generateSmoothStepPath"
     /\ Less(path.args[1], path.args[3])) =>
        LET sx == path.args[1]
            sy == path.args[2]
            tx == path.args[3]
            ty == path.args[4]
            r == IF path.args[5] = << >> THEN Whole(2) ELSE path.args[5][1]
            midX == Halved(Plus(sx, tx))
            d == IF Less(sy, ty) THEN Whole(1) ELSE Whole(-1)
            from == Plus(sy, Times(d, r))
            to == Minus(ty, Times(d, r))
        IN (AtMost(Whole(0), r) /\ Less(r, Halved(Minus(tx, sx)))) =>
              /\ path.out = generateSmoothStepPath(sx, sy, tx, ty, <<r>>)
              /\ AtMost(sx, Minus(midX, r))
              /\ AtMost(Whole(0), Times(d, Minus(to, from)))
              /\ AtMost(Plus(midX, r), tx)

\* The point (x, y).
Point(x, y) == [x |-> x, y |-> y]

\* "M tip L a L b Z": the closed triangle tip, a, b.
Triangle(tip, a, b) ==
    "M " \o NumberToString(tip.x) \o " " \o NumberToString(tip.y)
        \o " L " \o NumberToString(a.x) \o " " \o NumberToString(a.y)
        \o " L " \o NumberToString(b.x) \o " " \o NumberToString(b.y) \o " Z"

\* The coords that the getter recorded in path has read.
CoordsRead ==
    IF path.fn = "useConnectionUtils.getArrowPath"
    THEN useConnectionUtils_coords(canvas, path.args[1], path.args[2])
    ELSE useConnectionPreview_coords(Store, canvas)

\* C23: for a target anchor (targetX, targetY) and every size and offset
\* (4 and 0 when omitted), arrowPath of a committed connection and of the
\* preview is the closed triangle with tip (targetX - offset, targetY) and
\* base corners (tip.x - size, targetY - size/2), (tip.x - size,
\* targetY + size/2); arrowPath(4, 0) at (20, 20) is the triangle
\* (20,20), (16,18), (16,22).
C23_ArrowPath ==
    (/\ path.fn \in {"useConnectionUtils.getArrowPath", "useConnectionPreview.getArrowPath"}
     /\ CoordsRead # Null) =>
        LET n == Len(path.args)
            size == IF path.args[n - 1] = << >> THEN Whole(4) ELSE path.args[n - 1][1]
            offset == IF path.args[n] = << >> THEN Whole(0) ELSE path.args[n][1]
            target == CoordsRead[1].target
            tip == Point(Minus(target.x, offset), target.y)
            half == Times(size, Half)
        IN /\ path.out = Triangle(tip, Point(Minus(tip.x, size), Minus(target.y, half)),
                                       Point(Minus(tip.x, size), Plus(target.y, half)))
           /\ (target = Point(Whole(20), Whole(20)) /\ size = Whole(4) /\ offset = Whole(0)) =>
                 path.out = "M 20 20 L 16 18 L 16 22 Z"

C23_Witness ==
    /\ path.fn = "useConnectionUtils.getArrowPath"
    /\ path.args = <<"a", "c", <<Whole(4)>>, <<Whole(0)>> >>
    /\ path.out = "M 20 20 L 16 18 L 16 22 Z"

\* The preview draws the same triangle at the pointer with size 5, offset 2.
C23_WitnessPreview ==
    /\ path.fn = "useConnectionPreview.getArrowPath"
    /\ path.args = << <<Whole(5)>>, <<Whole(2)>> >>
    /\ path.out = "M 18 2.5 L 13 0 L 13 5 Z"

\* The node id has an element in the registry.
Registered(id) == HasOwn(canvas.nodes, id)

\* Right-center and left-center of the registered element of the node id,
\* measured from the top-left corner of the root element.
RightCenter(id) ==
    LET e == getBoundingClientRect(Get(canvas.nodes, id)[1])
    IN Point(Minus(e.right, canvas.root[1].left),
             Plus(Minus(e.top, canvas.root[1].top), Times(e.height, Half)))

LeftCenter(id) ==
    LET e == getBoundingClientRect(Get(canvas.nodes, id)[1])
    IN Point(Minus(e.left, canvas.root[1].left),
             Plus(Minus(e.top, canvas.root[1].top), Times(e.height, Half)))

\* C24: for a committed connection whose source and target rectangles are
\* available, coords.source is (sourceRect.right, sourceRect.top +
\* sourceRect.height / 2) and coords.target is (targetRect.left,
\* targetRect.top + targetRect.height / 2), measured from the top-left corner
\* of the container.
C24_ConnectionCoords ==
    (/\ path.fn = "useConnectionUtils.coords"
     /\ rect(canvas, path.args[1]) # Null
     /\ rect(canvas, path.args[2]) # Null) =>
        LET sourceRect == rect(canvas, path.args[1])[1]
            targetRect == rect(canvas, path.args[2])[1]
        IN /\ path.out # Null
           /\ path.out[1].source = Point(sourceRect.right,
                                         Plus(sourceRect.top, Times(sourceRect.height, Half)))
           /\ path.out[1].target = Point(targetRect.left,
                                         Plus(targetRect.top, Times(targetRect.height, Half)))
           /\ Registered(path.args[1]) => path.out[1].source = RightCenter(path.args[1])
           /\ Registered(path.args[2]) => path.out[1].target = LeftCenter(path.args[2])

C24_Witness ==
    /\ path.fn = "useConnectionUtils.coords"
    /\ Registered("a") /\ Registered("c")
    /\ canvas.root # Null /\ canvas.root[1].left = Whole(8)
    /\ path.out = <<[source |-> Point(Whole(14), [num |-> 9, den |-> 2]),
                     target |-> Point(Whole(20), Whole(20))]>>

\* C25: while the source node or the target node of a committed connection
\* has no registered element, or there is no root element, the rect of
\* that node is undefined, the coords of the connection is null and its
\* path getters return the empty string.
C25_NullWhenUnavailable ==
    /\ \A n \in CanvasNodes :
          (~Registered(n.id) \/ canvas.root = Null) => rect(canvas, n.id) = Null
    /\ (/\ path.fn \in {"useConnectionUtils.coords", "useConnectionUtils.getBezierPath",
                         "useConnectionUtils.getSmoothStepPath",
                         "useConnectionUtils.getArrowPath"}
        /\ (~Registered(path.args[1]) \/ ~Registered(path.args[2]) \/ canvas.root = Null)) =>
           path.out = IF path.fn = "useConnectionUtils.coords" THEN Null ELSE ""

\* C26: during a drag whose origin node is registered, with a root element,
\* the coords of the preview is not null wherever the pointer is: its source
\* is the right-center of the origin node and its target is the pointer
\* position relative to the container.
C26_PreviewCoords ==
    (/\ path.fn = "useConnectionPreview.coords"
     /\ isDragging
     /\ dragSource # Null
     /\ Registered(dragSource[1])
     /\ canvas.root # Null) =>
        /\ path.out # Null
        /\ path.out[1].source = RightCenter(dragSource[1])
        /\ path.out[1].target = Point(canvas.elementX, canvas.elementY)

\* C27: while no drag is in progress, the coords of the preview is null and
\* its getBezierPath, getSmoothStepPath and getArrowPath return "".
C27_IdlePreviewEmpty ==
    ~isDragging =>
        /\ useConnectionPreview_coords(Store, canvas) = Null
        /\ path.fn = "useConnectionPreview.coords" => path.out = Null
        /\ path.fn \in {"useConnectionPreview.getBezierPath",
                         "useConnectionPreview.getSmoothStepPath",
                         "useConnectionPreview.getArrowPath"} => path.out = ""

\* Idle after a drag, with the origin node still registered, a root element
\* and the pointer away from the edges.
C27_Witness ==
    /\ ~isDragging
    /\ last.op = "endConnection" /\ last.pre.isDragging
    /\ Registered(last.pre.dragSource[1])
    /\ canvas.root # Null
    /\ TruthyNumber(canvas.elementX) /\ TruthyNumber(canvas.elementY)
    /\ path.fn = "useConnectionPreview.getArrowPath"
    /\ path.out = ""

\* C28: endConnection is idempotent: right after endConnection(t), a second
\* endConnection(t) leaves the mapping and the drag state as they are, so
\* that two calls from any state give what one call gives; a mouse-up on
\* the handle of a target node, handled by the handle and by the node,
\* leaves what the first of the two listeners left.
C28_EndIdempotent ==
    /\ last.op = "endConnection" =>
          /\ endConnection(Store, last.a) = Store
          /\ endConnection(endConnection(last.pre, last.a), last.a)
                 = endConnection(last.pre, last.a)
    /\ \A n \in Nodes :
          LET trace == DispatchMouseUp(Store, n, "handle")
          IN Len(trace) = 2 /\ trace[2] = trace[1]

C28_Witness ==
    /\ last.op = "endConnection"
    /\ last.pre.isDragging
    /\ Truthy(last.pre.dragSource)
    /\ mapping # last.pre.mapping
    /\ Len(mapping) > 1

\* C29: while dragging, a click that reaches the root cancels the drag and
\* leaves the mapping unchanged; a click on a node stops at the node and
\* does not cancel: on a source node it leaves the store Dragging from that
\* node, on a target node it commits the entry drag source -> node and ends
\* the drag.
C29_ClickWhileDragging ==
    last.pre.isDragging =>
        /\ last.op = "rootclick" => (Idle /\ mapping = last.pre.mapping)
        /\ (last.op = "click" /\ last.b = "source") =>
              (isDragging /\ dragSource = <<last.a>> /\ mapping = last.pre.mapping)
        /\ (last.op = "click" /\ last.b = "target") =>
              (Idle /\ Get(mapping, last.pre.dragSource[1]) = <<last.a>>)

\* C30: after any sequence of mouse and click events, dragSource is null or
\* the identifier of a source node, every entry has the identifier of a
\* source node as key and of a target node as value; a mouse-down or click
\* that starts a drag is on a source node and starts it from that node, a
\* mouse-up or click that commits is on a target node and commits to it.
C30_HandlersUseOwnNode ==
    /\ dragSource = Null \/ dragSource[1] \in SourceNodes
    /\ \A i \in 1..Len(mapping) :
          mapping[i][1] \in SourceNodes /\ mapping[i][2] \in TargetNodes
    /\ (last.op \in {"mousedown", "mouseup", "click"} /\ dragSource # Null
           /\ dragSource # last.pre.dragSource) =>
          (last.b = "source" /\ dragSource = <<last.a>> /\ last.op # "mouseup")
    /\ (last.op \in {"mousedown", "mouseup", "click"} /\ mapping # last.pre.mapping) =>
          /\ last.b = "target" /\ last.op # "mousedown"
          /\ Get(mapping, last.pre.dragSource[1]) = <<last.a>>

\* A drag from the source-only node "b" was committed by a mouse-up on the
\* target-only node "c".
C30_Witness ==
    /\ last.op = "mouseup" /\ last.a = "c" /\ last.b = "target"
    /\ last.pre.dragSource = <<"b">>
    /\ Get(mapping, "b") = <<"c">>
    /\ Idle

\* The registry has an entry for i exactly when a node with identifier i is
\* mounted, and the entry is the element of a mounted node with identifier i.
RegistryExact(cv) ==
    \A i \in {n.id : n \in Nodes} :
        /\ HasOwn(cv.nodes, i) = (\E n \in cv.mounted : n.id = i)
        /\ HasOwn(cv.nodes, i) =>
              \E n \in cv.mounted : n.id = i /\ Get(cv.nodes, i) = <<ElementOf(n)>>

\* No two mounted nodes have the same identifier.
UniqueIds(cv) == \A n \in cv.mounted, m \in cv.mounted : n.id = m.id => n = m

\* C31 as stated: after any sequence of mounts and unmounts the registry
\* has an entry for i exactly when a node with identifier i is mounted, and
\* that entry is the element of a mounted node, also when a source node and
\* a target node share an identifier.
C31_RegistryExact == RegistryExact(canvas)

\* C31 as amended: the registry is exact at the start and every setting of
\* a node's el (at mount, at a later render, at unmount) keeps it exact as
\* long as no two mounted nodes share an identifier, before and after the
\* step.
C31_RegistryExactUnique ==
    /\ RegistryExact(InitCanvas)
    /\ [][(RegistryExact(canvas) /\ UniqueIds(canvas) /\ UniqueIds(canvas'))
             => RegistryExact(canvas')]_vars

\* The source node "b" and the target node "c" are mounted, after the target
\* node "a" was mounted and unmounted again.
C31_Witness ==
    /\ canvas.mounted = {[id |-> "b", type |-> "source"], [id |-> "c", type |-> "target"]}
    /\ canvas.nodes = << <<"c", "target:c">>, <<"b", "source:b">> >>

\* C32: for every mapping m and source s that is not a key of m,
\* addConnection(s, t) followed by removeConnection(s) restores the mapping
\* to exactly m, with the same entries in the same order and the same
\* connections list; the drag state is the same before, between and after.
C32_AddThenRemove ==
    [][(/\ last.op = "addConnection"
        /\ ~HasOwn(last.pre.mapping, last.a)
        /\ last'.op = "removeConnection"
        /\ last'.a = last.a) =>
           /\ mapping' = last.pre.mapping
           /\ connections([mapping |-> mapping']) = connections(last.pre)
           /\ isDragging = last.pre.isDragging /\ dragSource = last.pre.dragSource
           /\ isDragging' = last.pre.isDragging /\ dragSource' = last.pre.dragSource]_vars

\* The source "1", an array index, was put in front of the other entries
\* during a drag and has been removed again.
C32_Witness ==
    /\ last.op = "removeConnection"
    /\ last.a = "1"
    /\ Len(last.pre.mapping) >= 3
    /\ last.pre.mapping[1][1] = "1"
    /\ mapping = Tail(last.pre.mapping)
    /\ isDragging

====
